---- MODULE Spec2Model ----
(***************************************************************************)
(* K-FAC-pre (src/examples/kfac_pre.py): the sample bookkeeping, the       *)
(* Kronecker factor estimates, the damped preconditioner and the kfac      *)
(* training loop, as a state machine.                                      *)
(*                                                                         *)
(* Numbers are exact rationals <<n, d>> in lowest terms with d > 0, so     *)
(* that equal values are equal tuples; floating-point rounding is not      *)
(* modelled.  A matrix is a sequence of rows, a bias a sequence of         *)
(* numbers.  The objective and get_batch are the caller's: their values    *)
(* are drawn from small families of integer matrices.  The sampler is      *)
(* modelled on networks with one output unit and hidden pre-activations of *)
(* zero, where its floating-point results are exact.                       *)
(***************************************************************************)
EXTENDS Integers, Sequences, FiniteSets, TLC

(***************************************************************************)
(* Bounds of the model.                                                    *)
(***************************************************************************)
MaxIters == 3

MaxPeriod == 2

(***************************************************************************)
(* Exact arithmetic standing for Python's / numpy's +, -, *, /.            *)
(***************************************************************************)
Abs(x) == IF x < 0 THEN -x ELSE x

RECURSIVE GCD(_, _)
GCD(a, b) == IF b = 0 THEN a ELSE GCD(b, a % b)

Norm(n, d) ==
    LET s == IF d < 0 THEN -1 ELSE 1
        g == GCD(Abs(n), Abs(d))
    IN  <<(s * n) \div g, (s * d) \div g>>

Zero == <<0, 1>>

One == <<1, 1>>

RInt(k) == <<k, 1>>

\* a/b + c/d over the least common denominator, a/b * c/d cancelling first:
\* the intermediate products stay small.
RAdd(x, y) ==
    LET g == GCD(x[2], y[2])
    IN  Norm(x[1] * (y[2] \div g) + y[1] * (x[2] \div g), (x[2] \div g) * y[2])

RNeg(x) == <<-x[1], x[2]>>

RSub(x, y) == RAdd(x, RNeg(y))

RMul(x, y) ==
    LET g1 == GCD(Abs(x[1]), y[2])
        g2 == GCD(Abs(y[1]), x[2])
    IN  Norm((x[1] \div g1) * (y[1] \div g2), (x[2] \div g2) * (y[2] \div g1))

RInv(x) == IF x[1] < 0 THEN <<-x[2], -x[1]>> ELSE <<x[2], x[1]>>

RDiv(x, y) == RMul(x, RInv(y))

(***************************************************************************)
(* numpy arrays: shape, eye, transpose, dot, +, scalar *, vstack, hstack.  *)
(* Tup makes a function over 1..n the tuple of its values; MkVec and MkMat  *)
(* build a vector and a matrix from their entries.                         *)
(***************************************************************************)
Tup(f) == f \o <<>>

MkVec(n, F(_)) == Tup([c \in 1..n |-> F(c)])

MkMat(rows, cols, F(_, _)) == Tup([r \in 1..rows |-> MkVec(cols, LAMBDA c : F(r, c))])

NRows(M) == Len(M)

NCols(M) == Len(M[1])

Eye(n) == MkMat(n, n, LAMBDA r, c : IF r = c THEN One ELSE Zero)

Transpose(M) == MkMat(NCols(M), NRows(M), LAMBDA c, r : M[r][c])

RECURSIVE DotSum(_, _, _, _, _)
DotSum(A, B, r, c, k) ==
    IF k = 0 THEN Zero ELSE RAdd(DotSum(A, B, r, c, k - 1), RMul(A[r][k], B[k][c]))

Dot(A, B) == MkMat(NRows(A), NCols(B), LAMBDA r, c : DotSum(A, B, r, c, NRows(B)))

MatAdd(A, B) == MkMat(NRows(A), NCols(A), LAMBDA r, c : RAdd(A[r][c], B[r][c]))

MatSub(A, B) == MkMat(NRows(A), NCols(A), LAMBDA r, c : RSub(A[r][c], B[r][c]))

MatScale(k, A) == MkMat(NRows(A), NCols(A), LAMBDA r, c : RMul(k, A[r][c]))

MatDiv(A, k) == MkMat(NRows(A), NCols(A), LAMBDA r, c : RDiv(A[r][c], k))

VecSub(u, v) == MkVec(Len(u), LAMBDA c : RSub(u[c], v[c]))

VecScale(k, u) == MkVec(Len(u), LAMBDA c : RMul(k, u[c]))

VStack(W, b) == Append(W, b)

\* Python's sum() of a non-empty list of equally shaped arrays.
RECURSIVE MatSum(_)
MatSum(Ms) ==
    IF Len(Ms) = 1 THEN Ms[1] ELSE MatAdd(MatSum(SubSeq(Ms, 1, Len(Ms) - 1)), Ms[Len(Ms)])

\* M without row i and column j.
Minor(M, i, j) ==
    MkMat(NRows(M) - 1, NRows(M) - 1,
          LAMBDA r, c : M[IF r < i THEN r ELSE r + 1][IF c < j THEN c ELSE c + 1])

RECURSIVE Det(_)
RECURSIVE DetExpand(_, _)
Det(M) == IF NRows(M) = 1 THEN M[1][1] ELSE DetExpand(M, NRows(M))

DetExpand(M, j) ==
    IF j = 0 THEN Zero
    ELSE LET term == RMul(M[1][j], Det(Minor(M, 1, j)))
         IN  IF j % 2 = 1 THEN RAdd(DetExpand(M, j - 1), term)
             ELSE RSub(DetExpand(M, j - 1), term)

Cofactor(M, i, j) ==
    LET d == IF NRows(M) = 1 THEN One ELSE Det(Minor(M, i, j))
    IN  IF (i + j) % 2 = 0 THEN d ELSE RNeg(d)

Singular(M) == Det(M) = Zero

\* np.linalg.inv of a non-singular square matrix.
LinalgInv(M) ==
    LET d == Det(M)
    IN  MkMat(NRows(M), NRows(M), LAMBDA r, c : RDiv(Cofactor(M, c, r), d))

(***************************************************************************)
(* Bookkeeping for samples.  Python lists are objects: a sample buffer is  *)
(* a record of list references (lists[k][l], k = 1 for activations and     *)
(* k = 2 for gradients, l the layer) and a heap holding each list's        *)
(* batches, so that two references to one list share its contents.         *)
(***************************************************************************)
NumLayers(layer_sizes) == Len(layer_sizes) - 1

\* As [[[]] * L] * 2 would build it: every reference names one list.
init_sample_lists_shared(layer_sizes) ==
    LET n == NumLayers(layer_sizes)
    IN  [lists |-> MkMat(2, n, LAMBDA k, l : 1),
         heap  |-> MkVec(2 * n, LAMBDA id : <<>>)]

init_sample_lists(layer_sizes) ==
    LET L == NumLayers(layer_sizes)
    IN  [lists |-> MkMat(2, L, LAMBDA k, l : (k - 1) * L + l),
         heap  |-> MkVec(2 * L, LAMBDA id : <<>>)]

Min(a, b) == IF a < b THEN a ELSE b

\* The first k steps of the zip loop of append_samples.
RECURSIVE append_samples_upto(_, _, _, _)
append_samples_upto(heap, all_samples, new_samples, k) ==
    IF k = 0 THEN heap
    ELSE LET h == append_samples_upto(heap, all_samples, new_samples, k - 1)
         IN  [h EXCEPT ![all_samples[k]] = Append(@, new_samples[k])]

append_samples(heap, all_samples, new_samples) ==
    append_samples_upto(heap, all_samples, new_samples,
                        Min(Len(all_samples), Len(new_samples)))

\* map(append_samples, samples, new_samples): activations, then gradients.
collect_samples(samples, new_samples) ==
    LET h1 == append_samples(samples.heap, samples.lists[1], new_samples[1])
        h2 == append_samples(h1, samples.lists[2], new_samples[2])
    IN  [samples EXCEPT !.heap = h2]

\* The lists a buffer refers to, as values: <<a_samples, g_samples>>.
Contents(samples) ==
    MkVec(2, LAMBDA k :
        MkVec(Len(samples.lists[k]), LAMBDA l : samples.heap[samples.lists[k][l]]))

(***************************************************************************)
(* Bookkeeping for kron factor estimates.                                  *)
(***************************************************************************)
append_homog_coord(x) == MkVec(NRows(x), LAMBDA r : Append(x[r], One))

RECURSIVE CountRows(_)
CountRows(batches) ==
    IF batches = <<>> THEN 0
    ELSE CountRows(SubSeq(batches, 1, Len(batches) - 1)) + NRows(batches[Len(batches)])

sumsq(batch) == Dot(Transpose(batch), batch)

\* sum(...) / num_samples raises ZeroDivisionError when the count is zero
\* (Python's 0 / 0: the sum of an empty list is the integer 0).
estimate_raises(all_samples) == CountRows(all_samples[1]) = 0

estimate_block_factors(all_samples, append_homog) ==
    LET num_samples == CountRows(all_samples[1])
        homog(x) == IF append_homog THEN append_homog_coord(x) ELSE x
        layer_sumsq(layer_samples) ==
            MatDiv(MatSum(MkVec(Len(layer_samples),
                                 LAMBDA b : sumsq(homog(layer_samples[b])))),
                   RInt(num_samples))
    IN  MkVec(Len(all_samples), LAMBDA l : layer_sumsq(all_samples[l]))

\* The usual convention, eps weighting the new value.
update_swapped(old, new, eps) == MatAdd(MatScale(eps, new), MatScale(RSub(One, eps), old))

update(old, new, eps) == MatAdd(MatScale(eps, old), MatScale(RSub(One, eps), new))

update_factor_estimates(old_estimates, samples, eps) ==
    LET As == old_estimates[1]
        Gs == old_estimates[2]
        Ahats == estimate_block_factors(samples[1], TRUE)
        Ghats == estimate_block_factors(samples[2], FALSE)
    IN  <<MkVec(Len(As), LAMBDA l : update(As[l], Ahats[l], eps)),
          MkVec(Len(Gs), LAMBDA l : update(Gs[l], Ghats[l], eps))>>

\* Without the homogeneous coordinate.
init_factor_estimates_no_homog(layer_sizes) ==
    <<MkVec(NumLayers(layer_sizes), LAMBDA l : Eye(layer_sizes[l])),
      MkVec(NumLayers(layer_sizes), LAMBDA l : Eye(layer_sizes[l + 1]))>>

init_factor_estimates(layer_sizes) ==
    LET L == NumLayers(layer_sizes)
    IN  <<MkVec(L, LAMBDA l : Eye(layer_sizes[l] + 1)),
          MkVec(L, LAMBDA l : Eye(layer_sizes[l + 1]))>>

(***************************************************************************)
(* Computing and applying the preconditioner.                              *)
(***************************************************************************)
damped(X, lmbda) == MatAdd(X, MatScale(lmbda, Eye(NRows(X))))

\* np.linalg.inv raises LinAlgError on a singular matrix.
precond_raises(factor_estimates, lmbda) ==
    \E k \in 1..2 : \E l \in 1..Len(factor_estimates[k]) :
        Singular(damped(factor_estimates[k][l], lmbda))

\* Without the damping term.
compute_precond_undamped(factor_estimates, lmbda) ==
    MkVec(2, LAMBDA k :
        MkVec(Len(factor_estimates[k]), LAMBDA l : LinalgInv(factor_estimates[k][l])))

compute_precond(factor_estimates, lmbda) ==
    MkVec(2, LAMBDA k :
        MkVec(Len(factor_estimates[k]),
              LAMBDA l : LinalgInv(damped(factor_estimates[k][l], lmbda))))

\* Splitting the first row off instead of the last.
apply_block_first_row(Ainv, Ginv, W_grad, b_grad) ==
    LET Wb_natgrad == Dot(Ainv, Dot(VStack(W_grad, b_grad), Ginv))
    IN  <<SubSeq(Wb_natgrad, 2, NRows(Wb_natgrad)), Wb_natgrad[1]>>

apply_block(Ainv, Ginv, W_grad, b_grad) ==
    LET Wb_grad == VStack(W_grad, b_grad)
        Wb_natgrad == Dot(Ainv, Dot(Wb_grad, Ginv))
    IN  <<SubSeq(Wb_natgrad, 1, NRows(Wb_natgrad) - 1), Wb_natgrad[NRows(Wb_natgrad)]>>

apply_preconditioner(precond, gradient) ==
    MkVec(Min(Min(Len(precond[1]), Len(precond[2])), Len(gradient)),
          LAMBDA l : apply_block(precond[1][l], precond[2][l], gradient[l][1], gradient[l][2]))

\* Stepping up the gradient.
update_params_ascent(params, natgrad, step_size) ==
    MkVec(Min(Len(params), Len(natgrad)),
          LAMBDA l : <<MatAdd(params[l][1], MatScale(step_size, natgrad[l][1])),
                       MatAdd(<<params[l][2]>>, MatScale(step_size, <<natgrad[l][2]>>))[1]>>)

update_params(params, natgrad, step_size) ==
    MkVec(Min(Len(params), Len(natgrad)),
          LAMBDA l : <<MatSub(params[l][1], MatScale(step_size, natgrad[l][1])),
                       VecSub(params[l][2], VecScale(step_size, natgrad[l][2]))>>)

\* The three triggers of the main loop.
period_hit(i, period) == (i + 1) % period = 0

\* The rebuild placed before the re-estimation.
phase_order_rebuild_first == <<"grad", "sample", "precond", "reestimate", "apply", "update">>

\* The statements of the loop body, in program order.
phase_order == <<"grad", "sample", "reestimate", "precond", "apply", "update">>

\* The statement after phase p; the last one leads back to the loop head.
phase_after(p) ==
    LET k == CHOOSE j \in 1..Len(phase_order) : phase_order[j] = p
    IN  phase_order[(k % Len(phase_order)) + 1]

(***************************************************************************)
(* The caller's values: arrays shaped like params, the objective's         *)
(* gradient and the minibatches of get_batch, drawn from a family of small *)
(* integer matrices.                                                       *)
(***************************************************************************)
Pattern(seed, r, c) == (((seed + 1) * r + seed * c + r * c) % 3) - 1

Fill(seed, rows, cols) == MkMat(rows, cols, LAMBDA r, c : RInt(Pattern(seed, r, c)))

Seeds == {0, 1}

\* A list of (W, b) pairs shaped like the params of a net of these sizes.
GradientOf(seed, layer_sizes) ==
    MkVec(NumLayers(layer_sizes),
          LAMBDA l : <<Fill(seed + l, layer_sizes[l], layer_sizes[l + 1]),
                       Fill(seed + l + 1, 1, layer_sizes[l + 1])[1]>>)

\* Layerwise <<a_samples, g_samples>> of num_rows rows, as arguments of
\* update_factor_estimates called on its own.
BatchOf(seed, layer_sizes, num_rows) ==
    <<MkVec(NumLayers(layer_sizes), LAMBDA l : Fill(seed + l, num_rows, layer_sizes[l])),
      MkVec(NumLayers(layer_sizes),
            LAMBDA l : Fill(seed + l + 1, num_rows, layer_sizes[l + 1]))>>

\* X with every layer but the last set to zero.
LastLayerOnly(X) ==
    MkVec(Len(X), LAMBDA l : IF l = Len(X) THEN X[l]
                             ELSE <<MatScale(Zero, X[l][1]), VecScale(Zero, X[l][2])>>)

\* The init_params the caller passes: the layers below the last start at 0.
InitParams(layer_sizes) == LastLayerOnly(GradientOf(2, layer_sizes))

\* val_and_grad(objective): the caller's objective is a function of the
\* last layer's params and of the iteration index (its minibatch); its
\* gradient is shaped like params and is zero in the layers below the last.
objective_grad(f, params, i) ==
    LastLayerOnly(GradientOf(f + i, [l \in 1..(Len(params) + 1) |->
                          IF l = 1 THEN NRows(params[1][1]) ELSE Len(params[l - 1][2])]))

\* The caller's get_batch(i): BatchRows rows of inputs.
BatchRows == 2

get_batch(f, i, layer_sizes) == Fill(f + i, BatchRows, layer_sizes[1])

(***************************************************************************)
(* The sampler, lines 62-87.  np.tanh is exact at 0 only, and the model    *)
(* evaluates it nowhere else; the targets sampled from a net of one output *)
(* unit are all 1, whatever the random draw.                               *)
(***************************************************************************)
Tanh(x) == CASE x = Zero -> Zero

\* all_activations after n entries: the inputs, then tanh of each layer's s.
RECURSIVE all_activations(_, _, _)
all_activations(params, inputs, n) ==
    IF n = 1 THEN <<inputs>>
    ELSE LET prev == all_activations(params, inputs, n - 1)
             a == prev[n - 1]
             W == params[n - 1][1]
             b == params[n - 1][2]
         IN  Append(prev, MkMat(NRows(a), Len(b),
                        LAMBDA r, c : Tanh(RAdd(DotSum(a, W, r, c, NRows(W)), b[c]))))

\* d/ds of sum((s - logsumexp(s)) * targets) for one output unit: the
\* target minus the softmax, both 1.
logprobs_grad(rows, width) ==
    CASE width = 1 -> MkMat(rows, 1, LAMBDA r, c : RSub(One, One))

\* The gradient with respect to extra_biases[l]: the last layer's is that of
\* logprobs, a lower layer's is the one above it through W and tanh.
RECURSIVE extra_bias_grad(_, _, _)
extra_bias_grad(params, acts, l) ==
    IF l = Len(params) THEN logprobs_grad(NRows(acts[1]), Len(params[l][2]))
    ELSE LET up == Dot(extra_bias_grad(params, acts, l + 1), Transpose(params[l + 1][1]))
             a == acts[l + 1]
         IN  MkMat(NRows(up), NCols(up),
                   LAMBDA r, c : RMul(up[r][c], RSub(One, RMul(a[r][c], a[r][c]))))

\* rows: the indices npr.choice drew, with replacement.
collect_activations_and_grad_samples(params, inputs, rows) ==
    LET chosen == MkVec(Len(rows), LAMBDA r : inputs[rows[r]])
        acts == all_activations(params, chosen, Len(params))
    IN  <<acts, MkVec(Len(params), LAMBDA l : extra_bias_grad(params, acts, l))>>

\* The sizes of the model's networks: one output unit.
LayerSizesChoices == {<<1, 1>>, <<2, 1>>, <<1, 2, 1>>}

Half == <<1, 2>>

(***************************************************************************)
(* The state of a kfac call: its arguments, its locals, the position in    *)
(* the loop body (pc), the exception that ended it (exc), and obs, the     *)
(* record of what the run has done so far: the phases run in the current   *)
(* iteration, the indices the objective was evaluated at, the number of    *)
(* updates, the batches collected since the last re-estimation, the        *)
(* factors the last rebuild inverted, the buffer the last re-estimation    *)
(* read, the params the gradient and the samples were taken at, and the    *)
(* iteration of the last collection, re-estimation and rebuild.  call and  *)
(* ret are the call under way and its return value.                        *)
(***************************************************************************)
VARIABLES objective, layer_sizes, init_params, step_size, num_iters, num_samples,
          sample_period, reestimate_period, update_precond_period, lmbda, eps,
          samples, factors, precond, params, i, gradient, natgrad, pc, exc,
          obs, call, ret

argvars == <<objective, layer_sizes, init_params, step_size, num_iters, num_samples,
             sample_period, reestimate_period, update_precond_period, lmbda, eps, call>>

vars == <<argvars, samples, factors, precond, params, i, gradient, natgrad, pc, exc,
          obs, ret>>

NoRan == [collect |-> FALSE, reestimate |-> FALSE, rebuild |-> FALSE]

Init ==
    /\ call = [fn |-> "kfac"]
    /\ ret = "none"
    /\ objective \in Seeds
    /\ layer_sizes \in LayerSizesChoices
    /\ init_params = InitParams(layer_sizes)
    /\ step_size = Half
    /\ num_iters \in 0..MaxIters
    /\ num_samples \in {1, 2}
    \* Two rows at a time are drawn for the nets of one input unit: the draws
    \* of two rows of two columns multiply the buffers beyond what the
    \* exploration covers.
    /\ layer_sizes[1] = 1 \/ num_samples = 1
    /\ sample_period \in 1..MaxPeriod
    /\ reestimate_period \in 1..MaxPeriod
    /\ update_precond_period \in 1..MaxPeriod
    /\ lmbda \in {Zero, One}
    /\ eps \in {Zero, Half}
    \* eps = 1/2 is explored in the runs that re-estimate at most once:
    \* repeated averaging makes the exact fractions outgrow TLC's integers.
    /\ eps = Zero \/ num_iters < 2 * reestimate_period
    /\ samples = init_sample_lists(layer_sizes)
    /\ factors = init_factor_estimates(layer_sizes)
    /\ precond = compute_precond(factors, lmbda)
    /\ params = init_params
    /\ i = 0
    /\ gradient = <<>>
    /\ natgrad = <<>>
    /\ pc = "grad"
    /\ exc = "none"
    /\ obs = [ran |-> NoRan, evals |-> <<>>, updates |-> 0, collected |-> <<>>,
              rebuilt_from |-> factors, est_from |-> <<>>, new_samples |-> <<>>,
              grad_at |-> <<>>, sampled_at |-> <<>>,
              last_collect |-> -1, last_reest |-> -1, last_rebuild |-> -1]

\* line 189: val, gradient = objective_grad(params, i)
ObjectiveGrad ==
    /\ pc = "grad"
    /\ i < num_iters
    /\ gradient' = objective_grad(objective, params, i)
    /\ pc' = phase_after(pc)
    /\ obs' = [obs EXCEPT !.ran = NoRan, !.evals = Append(@, i), !.grad_at = params]
    /\ UNCHANGED <<argvars, samples, factors, precond, params, i, natgrad, exc, ret>>

\* lines 191-192: if (i+1) % sample_period == 0: collect_samples(params, i)
CollectSamples ==
    /\ pc = "sample"
    /\ \/ /\ period_hit(i, sample_period)
          /\ \E rows \in [1..num_samples -> 1..BatchRows] :
                LET new_samples == collect_activations_and_grad_samples(
                                       params, get_batch(objective, i, layer_sizes), Tup(rows))
                IN  /\ samples' = collect_samples(samples, new_samples)
                    /\ obs' = [obs EXCEPT !.ran.collect = TRUE,
                                          !.collected = Append(@, new_samples),
                                          !.new_samples = new_samples,
                                          !.sampled_at = params,
                                          !.last_collect = i]
       \/ /\ ~period_hit(i, sample_period)
          /\ UNCHANGED <<samples, obs>>
    /\ pc' = phase_after(pc)
    /\ UNCHANGED <<argvars, factors, precond, params, i, gradient, natgrad, exc, ret>>

\* lines 194-196: if (i+1) % reestimate_period == 0: factors = ...; samples = ...
Reestimate ==
    /\ pc = "reestimate"
    /\ \/ /\ period_hit(i, reestimate_period)
          /\ ~estimate_raises(Contents(samples)[1])
          /\ factors' = update_factor_estimates(factors, Contents(samples), eps)
          /\ samples' = init_sample_lists(layer_sizes)
          /\ obs' = [obs EXCEPT !.ran.reestimate = TRUE,
                                !.est_from = Contents(samples),
                                !.collected = <<>>,
                                !.last_reest = i]
          /\ pc' = phase_after(pc)
          /\ exc' = exc
       \/ /\ period_hit(i, reestimate_period)
          /\ estimate_raises(Contents(samples)[1])
          /\ pc' = "raised"
          /\ exc' = "ZeroDivisionError"
          /\ obs' = [obs EXCEPT !.ran.reestimate = TRUE]
          /\ UNCHANGED <<factors, samples>>
       \/ /\ ~period_hit(i, reestimate_period)
          /\ pc' = phase_after(pc)
          /\ UNCHANGED <<factors, samples, obs, exc>>
    /\ UNCHANGED <<argvars, precond, params, i, gradient, natgrad, ret>>

\* lines 198-199: if (i+1) % update_precond_period == 0: precond = compute_precond(...)
RebuildPrecond ==
    /\ pc = "precond"
    /\ \/ /\ period_hit(i, update_precond_period)
          /\ ~precond_raises(factors, lmbda)
          /\ precond' = compute_precond(factors, lmbda)
          /\ obs' = [obs EXCEPT !.ran.rebuild = TRUE,
                                !.rebuilt_from = factors,
                                !.last_rebuild = i]
          /\ pc' = phase_after(pc)
          /\ exc' = exc
       \/ /\ period_hit(i, update_precond_period)
          /\ precond_raises(factors, lmbda)
          /\ pc' = "raised"
          /\ exc' = "LinAlgError"
          /\ obs' = [obs EXCEPT !.ran.rebuild = TRUE]
          /\ precond' = precond
       \/ /\ ~period_hit(i, update_precond_period)
          /\ pc' = phase_after(pc)
          /\ UNCHANGED <<precond, obs, exc>>
    /\ UNCHANGED <<argvars, samples, factors, params, i, gradient, natgrad, ret>>

\* line 204: natgrad = apply_preconditioner(precond, gradient)
ApplyPreconditioner ==
    /\ pc = "apply"
    /\ natgrad' = apply_preconditioner(precond, gradient)
    /\ pc' = phase_after(pc)
    /\ UNCHANGED <<argvars, samples, factors, precond, params, i, gradient, exc, obs, ret>>

\* line 205 and the loop's step: params = update_params(params, natgrad, step_size)
UpdateParams ==
    /\ pc = "update"
    /\ params' = update_params(params, natgrad, step_size)
    /\ i' = i + 1
    /\ pc' = phase_after(pc)
    /\ obs' = [obs EXCEPT !.updates = @ + 1]
    /\ UNCHANGED <<argvars, samples, factors, precond, gradient, natgrad, exc, ret>>

\* line 207: return params
Return ==
    /\ pc = "grad"
    /\ i = num_iters
    /\ pc' = "done"
    /\ ret' = params
    /\ UNCHANGED <<argvars, samples, factors, precond, params, i, gradient, natgrad, exc, obs>>

Next ==
    \/ ObjectiveGrad
    \/ CollectSamples
    \/ Reestimate
    \/ RebuildPrecond
    \/ ApplyPreconditioner
    \/ UpdateParams
    \/ Return

Spec == Init /\ [][Next]_vars

(***************************************************************************)
(* update_factor_estimates and apply_preconditioner called on their own,   *)
(* on arguments drawn from bounded sets.                                   *)
(***************************************************************************)
MaxBatches == 2

\* The buffer contents <<a_samples, g_samples>> after the collection events.
BufferOf(events, ls) ==
    MkVec(2, LAMBDA k :
        MkVec(NumLayers(ls), LAMBDA l :
            MkVec(Len(events), LAMBDA j : events[j][k][l])))

EventSeqs(ls) ==
    LET Events == {BatchOf(seed, ls, n) : seed \in Seeds, n \in {1, 2}}
    IN  UNION {[1..m -> Events] : m \in 0..MaxBatches}

\* A factor estimate other than the identity: I + x'x for a one-row sample x.
OtherEstimates(ls) ==
    <<MkVec(NumLayers(ls),
            LAMBDA l : MatAdd(Eye(ls[l] + 1),
                              sumsq(Fill(l, 1, ls[l] + 1)))),
      MkVec(NumLayers(ls),
            LAMBDA l : MatAdd(Eye(ls[l + 1]),
                              sumsq(Fill(l + 1, 1, ls[l + 1]))))>>

UpdateCallsFor(ls) ==
    {[fn |-> "update_factor_estimates", layer_sizes |-> ls, old_estimates |-> old,
      samples |-> BufferOf(Tup(ev), ls), eps |-> e] :
        old \in {init_factor_estimates(ls), OtherEstimates(ls)},
        ev \in EventSeqs(ls),
        e \in {Zero, Half}}

ApplyCallsFor(ls) ==
    {[fn |-> "apply_preconditioner", layer_sizes |-> ls, precond |-> pre,
      gradient |-> GradientOf(seed, ls)] :
        pre \in {compute_precond(init_factor_estimates(ls), Zero),
                 compute_precond(init_factor_estimates(ls), One),
                 compute_precond(OtherEstimates(ls), Zero)},
        seed \in 0..2}

Calls ==
    UNION {UpdateCallsFor(ls) \cup ApplyCallsFor(ls) : ls \in LayerSizesChoices \cup {<<1, 2>>}}

FnInit ==
    /\ call \in Calls
    /\ ret = "none"
    /\ pc = "call"
    /\ exc = "none"
    /\ objective = 0
    /\ layer_sizes = call.layer_sizes
    /\ init_params = <<>>
    /\ step_size = Zero
    /\ num_iters = 0
    /\ num_samples = 0
    /\ sample_period = 1
    /\ reestimate_period = 1
    /\ update_precond_period = 1
    /\ lmbda = Zero
    /\ eps = Zero
    /\ samples = <<>>
    /\ factors = <<>>
    /\ precond = <<>>
    /\ params = <<>>
    /\ i = 0
    /\ gradient = <<>>
    /\ natgrad = <<>>
    /\ obs = <<>>

CallUpdateFactorEstimates ==
    /\ pc = "call"
    /\ call.fn = "update_factor_estimates"
    /\ \/ /\ ~estimate_raises(call.samples[1])
          /\ ret' = update_factor_estimates(call.old_estimates, call.samples, call.eps)
          /\ pc' = "returned"
          /\ exc' = exc
       \/ /\ estimate_raises(call.samples[1])
          /\ exc' = "ZeroDivisionError"
          /\ pc' = "raised"
          /\ ret' = ret
    /\ UNCHANGED <<argvars, samples, factors, precond, params, i, gradient, natgrad, obs>>

CallApplyPreconditioner ==
    /\ pc = "call"
    /\ call.fn = "apply_preconditioner"
    /\ ret' = apply_preconditioner(call.precond, call.gradient)
    /\ pc' = "returned"
    /\ UNCHANGED <<argvars, samples, factors, precond, params, i, gradient, natgrad, exc, obs>>

FnNext ==
    \/ CallUpdateFactorEstimates
    \/ CallApplyPreconditioner

FnSpec == FnInit /\ [][FnNext]_vars

(***************************************************************************)
(* Vocabulary of the properties.                                           *)
(***************************************************************************)
L == NumLayers(layer_sizes)

IsSquare(M, n) == Len(M) = n /\ \A r \in 1..n : Len(M[r]) = n

\* Every entry of M off the diagonal is 0 and every diagonal entry is d.
IsScaledIdentity(M, d) ==
    \A r \in 1..Len(M) : \A c \in 1..Len(M[r]) : M[r][c] = IF r = c THEN d ELSE Zero

IsIdentity(M) == IsScaledIdentity(M, One)

\* X + lmbda * I, entry by entry.
Damp(X, lam) ==
    MkMat(Len(X), Len(X), LAMBDA r, c : IF r = c THEN RAdd(X[r][c], lam) ELSE X[r][c])

\* P is the inverse of X + lmbda * I.
IsDampedInverse(P, X, lam) == IsIdentity(Dot(P, Damp(X, lam)))

\* nat is grad preconditioned by the inverses of A and G: A * [W; b] * G
\* gives the raw gradient back.
IsNaturalGradient(nat, grad, A, G) ==
    Dot(A, Dot(Append(nat[1], nat[2]), G)) = Append(grad[1], grad[2])

Hit(period) == (i + 1) % period = 0

InLoopBody == pc \in {"sample", "reestimate", "precond", "apply", "update", "raised"}

AllLists == {<<k, l>> : k \in 1..2, l \in 1..L}

BufferEmpty == \A kl \in AllLists : Contents(samples)[kl[1]][kl[2]] = <<>>

(***************************************************************************)
(* C1: for every iteration index 0, ..., num_iters-1 and all positive      *)
(* periods, sample collection runs in iteration i exactly when (i+1) mod   *)
(* sample_period = 0, re-estimation exactly when (i+1) mod                 *)
(* reestimate_period = 0 and the preconditioner rebuild exactly when (i+1) *)
(* mod update_precond_period = 0, each independently of the other two and  *)
(* at no other iteration.  An iteration is over at "update" or when an     *)
(* exception has left the loop ("raised"); the run is over at "done" or    *)
(* "raised", and by then every iteration index whose condition holds has   *)
(* had its phase.                                                          *)
(***************************************************************************)
C1_Triggers ==
    /\ pc \in {"reestimate", "precond", "apply", "update", "raised"}
          => (obs.ran.collect <=> Hit(sample_period))
    /\ pc \in {"precond", "apply", "update", "raised"}
          => (obs.ran.reestimate <=> Hit(reestimate_period))
    /\ pc \in {"apply", "update", "raised"}
          => (obs.ran.rebuild <=> Hit(update_precond_period))
    /\ pc = "sample" => obs.ran = NoRan
    /\ pc = "reestimate" => ~obs.ran.reestimate /\ ~obs.ran.rebuild
    /\ pc = "precond" => ~obs.ran.rebuild
    /\ InLoopBody /\ obs.ran.collect => obs.last_collect = i
    /\ obs.last_collect # -1 => (obs.last_collect + 1) % sample_period = 0
    /\ obs.last_reest # -1 => (obs.last_reest + 1) % reestimate_period = 0
    /\ obs.last_rebuild # -1 => (obs.last_rebuild + 1) % update_precond_period = 0
    /\ pc \in {"done", "raised"}
          => \A j \in 0..(num_iters - 1) :
                /\ (j + 1) % sample_period = 0 => obs.last_collect >= j
                /\ (j + 1) % reestimate_period = 0 => obs.last_reest >= j
                /\ (j + 1) % update_precond_period = 0 => obs.last_rebuild >= j

(***************************************************************************)
(* C2: the phases of an iteration run in the order gradient, collection,   *)
(* re-estimation, rebuild, apply, update.  The gradient and the samples are *)
(* taken at the params not yet updated; a batch collected in iteration i   *)
(* is the last batch of the buffer a re-estimation of iteration i reads;   *)
(* when re-estimation and rebuild both run in iteration i, the natural     *)
(* gradient of iteration i is the gradient preconditioned by the damped    *)
(* inverses of the factors re-estimated in iteration i.                    *)
(***************************************************************************)
C2_Successors(p) ==
    CASE p = "grad" -> {"sample", "done"}
      [] p = "sample" -> {"reestimate"}
      [] p = "reestimate" -> {"precond", "raised"}
      [] p = "precond" -> {"apply", "raised"}
      [] p = "apply" -> {"update"}
      [] p = "update" -> {"grad"}
      [] OTHER -> {}

C2_State ==
    /\ InLoopBody => obs.grad_at = params
    /\ InLoopBody /\ obs.ran.collect => obs.sampled_at = params
    /\ pc \in {"precond", "apply", "update"} /\ obs.ran.collect /\ obs.ran.reestimate
          => \A kl \in AllLists :
                LET read == obs.est_from[kl[1]][kl[2]]
                IN  read # <<>> /\ read[Len(read)] = obs.new_samples[kl[1]][kl[2]]
    /\ pc = "update" /\ obs.ran.reestimate /\ obs.ran.rebuild
          => /\ obs.last_reest = i
             /\ \A l \in 1..L :
                  IsNaturalGradient(natgrad[l], gradient[l],
                                    Damp(factors[1][l], lmbda), Damp(factors[2][l], lmbda))

C2_PhaseOrder ==
    /\ []C2_State
    /\ [][/\ pc' \in C2_Successors(pc)
          /\ gradient' # gradient => pc = "grad"
          /\ samples' # samples => pc \in {"sample", "reestimate"}
          /\ factors' # factors => pc = "reestimate"
          /\ precond' # precond => pc = "precond"
          /\ natgrad' # natgrad => pc = "apply"
          /\ params' # params => pc = "update"]_vars

C2_Witness ==
    /\ pc = "update"
    /\ obs.ran.collect /\ obs.ran.reestimate /\ obs.ran.rebuild
    /\ obs.est_from # obs.new_samples
    /\ Len(obs.est_from[1][1]) = 2

(***************************************************************************)
(* C3: factors changes only in a re-estimation whose trigger fired and     *)
(* precond only in a rebuild whose trigger fired; precond is always the    *)
(* damped inverse of the factors as they stood at the most recent rebuild  *)
(* (the identity factors before the first), and the natural gradient is    *)
(* the gradient preconditioned by it, whatever factors has become since.   *)
(***************************************************************************)
C3_State ==
    /\ obs.last_rebuild <= i
    /\ obs.last_rebuild = -1
          => \A kl \in AllLists : IsIdentity(obs.rebuilt_from[kl[1]][kl[2]])
    /\ \A kl \in AllLists :
          IsDampedInverse(precond[kl[1]][kl[2]], obs.rebuilt_from[kl[1]][kl[2]], lmbda)
    /\ pc = "update"
          => \A l \in 1..L :
                IsNaturalGradient(natgrad[l], gradient[l],
                                  Damp(obs.rebuilt_from[1][l], lmbda),
                                  Damp(obs.rebuilt_from[2][l], lmbda))

C3_Staleness ==
    /\ []C3_State
    /\ [][/\ factors' # factors => pc = "reestimate" /\ Hit(reestimate_period)
          /\ precond' # precond => pc = "precond" /\ Hit(update_precond_period)
          /\ obs.rebuilt_from' # obs.rebuilt_from
                => /\ pc = "precond" /\ Hit(update_precond_period)
                   /\ obs.rebuilt_from' = factors
                   /\ obs.last_rebuild' = i]_vars

\* The preconditioner applied is stale: factors was re-estimated after the
\* last rebuild, and a rebuild has happened.
C3_Witness ==
    /\ pc = "update"
    /\ obs.last_rebuild >= 0
    /\ obs.last_reest > obs.last_rebuild
    /\ factors # obs.rebuilt_from
    /\ lmbda = One

(***************************************************************************)
(* C4: every list of the sample buffer (activations and gradients of every *)
(* layer) holds exactly the batches collected since the most recent        *)
(* re-estimation, one per collection event, in collection order; it is     *)
(* empty at the start and right after a re-estimation.                     *)
(***************************************************************************)
C4_EventsSince ==
    LET upto == IF pc \in {"grad", "sample", "done"} THEN i - 1 ELSE i
    IN  {j \in (obs.last_reest + 1)..upto : (j + 1) % sample_period = 0}

C4_Buffer ==
    /\ \A kl \in AllLists :
          LET list == Contents(samples)[kl[1]][kl[2]]
          IN  /\ Len(list) = Len(obs.collected)
              /\ \A j \in 1..Len(list) : list[j] = obs.collected[j][kl[1]][kl[2]]
    /\ Len(obs.collected) = Cardinality(C4_EventsSince)
    /\ Len(samples.lists) = 2 /\ Len(samples.lists[1]) = L /\ Len(samples.lists[2]) = L
    /\ pc = "grad" /\ i = 0 => BufferEmpty
    /\ pc = "precond" /\ obs.ran.reestimate => BufferEmpty

\* Two batches in the buffer of a network of two layers.
C4_Witness ==
    /\ L = 2
    /\ pc = "reestimate"
    /\ Len(Contents(samples)[1][1]) = 2
    /\ Contents(samples)[1][1][1] # Contents(samples)[1][1][2]
    /\ Contents(samples)[1][1] # Contents(samples)[2][2]

(***************************************************************************)
(* C6: factors and precond always hold L A-entries and L G-entries, layer  *)
(* l's A-entry square of size layer_sizes[l]+1 and its G-entry square of   *)
(* size layer_sizes[l+1]; before the first re-estimation the factors are   *)
(* the identity matrices init_factor_estimates returned.                   *)
(***************************************************************************)
C6_ShapesOf(X) ==
    /\ Len(X) = 2
    /\ Len(X[1]) = L
    /\ Len(X[2]) = L
    /\ \A l \in 1..L : /\ IsSquare(X[1][l], layer_sizes[l] + 1)
                       /\ IsSquare(X[2][l], layer_sizes[l + 1])

C6_Shapes ==
    /\ C6_ShapesOf(factors)
    /\ C6_ShapesOf(precond)
    /\ obs.last_reest = -1 => \A kl \in AllLists : IsIdentity(factors[kl[1]][kl[2]])

C6_Witness ==
    /\ L = 2
    /\ obs.last_reest >= 0
    /\ obs.last_rebuild >= obs.last_reest
    /\ ~IsIdentity(factors[1][1])

(***************************************************************************)
(* C8: kfac ends by returning the final params after exactly num_iters     *)
(* iterations: the objective was evaluated once per iteration at indices   *)
(* 0, ..., num_iters-1 in order, params was replaced num_iters times, and  *)
(* init_params is what the caller passed.                                  *)
(***************************************************************************)
C8_Returns ==
    pc \in {"done", "raised"}
        => /\ pc = "done"
           /\ ret = params
           /\ i = num_iters
           /\ obs.evals = [j \in 1..num_iters |-> j - 1]
           /\ obs.updates = num_iters
           /\ init_params = InitParams(layer_sizes)

(***************************************************************************)
(* C9: whenever the loop calls update_factor_estimates the sample buffer   *)
(* holds at least one batch for every layer, so re-estimation never fails  *)
(* with a division by zero.                                                *)
(***************************************************************************)
C9_NeverEmpty ==
    /\ pc = "reestimate" /\ Hit(reestimate_period)
          => \A kl \in AllLists : Contents(samples)[kl[1]][kl[2]] # <<>>
    /\ exc # "ZeroDivisionError"

(***************************************************************************)
(* C10: kfac starts with an empty buffer; until a re-estimation or a       *)
(* rebuild has run, factors are identities and precond is 1/(1+lmbda)      *)
(* times the identity; with lmbda = 0 the natural gradient of such a step  *)
(* is the raw gradient and the update is params - step_size * gradient.    *)
(***************************************************************************)
C10_Untouched == obs.last_reest = -1 /\ obs.last_rebuild = -1

C10_State ==
    /\ pc = "grad" /\ i = 0 => BufferEmpty
    /\ C10_Untouched
          => \A kl \in AllLists :
                /\ IsIdentity(factors[kl[1]][kl[2]])
                /\ IsScaledIdentity(precond[kl[1]][kl[2]], RDiv(One, RAdd(One, lmbda)))
    /\ C10_Untouched /\ lmbda = Zero /\ pc = "update" => natgrad = gradient

C10_InitialPhase ==
    /\ []C10_State
    /\ [][pc = "update" /\ C10_Untouched /\ lmbda = Zero
            => /\ Len(params') = L
               /\ \A l \in 1..L :
                    /\ Len(params'[l][1]) = layer_sizes[l]
                    /\ Len(params'[l][2]) = layer_sizes[l + 1]
                    /\ \A c \in 1..layer_sizes[l + 1] :
                         /\ params'[l][2][c]
                               = RSub(params[l][2][c], RMul(step_size, gradient[l][2][c]))
                         /\ \A r \in 1..layer_sizes[l] :
                               params'[l][1][r][c]
                                  = RSub(params[l][1][r][c],
                                         RMul(step_size, gradient[l][1][r][c]))]_vars

\* A whole run shorter than both periods, returned after plain steps.
C10_Witness ==
    /\ pc = "done"
    /\ lmbda = Zero
    /\ num_iters >= 1
    /\ num_iters < reestimate_period /\ num_iters < update_precond_period
    /\ C10_Untouched
    /\ params # init_params

(***************************************************************************)
(* C5: update_factor_estimates returns, entry by entry and per layer,      *)
(* eps*old + (1-eps)*m, m being the sum over all rows of all buffered      *)
(* batches of the products of the row's entries, divided once by the       *)
(* number of rows of layer 0's batches (activation rows first get a 1      *)
(* appended, gradient rows do not).  With eps = 0 the result does not      *)
(* depend on the old estimate, and a buffer holding one batch twice gives  *)
(* the estimate of the buffer holding it once.                             *)
(***************************************************************************)
RECURSIVE C5_Rows(_, _)
C5_Rows(batches, homog) ==
    IF batches = <<>> THEN <<>>
    ELSE LET last == batches[Len(batches)]
         IN  C5_Rows(SubSeq(batches, 1, Len(batches) - 1), homog)
                \o [r \in 1..Len(last) |-> IF homog THEN last[r] \o <<One>> ELSE last[r]]

RECURSIVE C5_SumProd(_, _, _)
C5_SumProd(rows, j, k) ==
    IF rows = <<>> THEN Zero
    ELSE RAdd(C5_SumProd(Tail(rows), j, k), RMul(Head(rows)[j], Head(rows)[k]))

C5_Entry(old, batches, homog, count, e, j, k) ==
    RAdd(RMul(e, old[j][k]),
         RMul(RSub(One, e), RDiv(C5_SumProd(C5_Rows(batches, homog), j, k), RInt(count))))

C5_Matches(new, old, lists, homog, e, size(_)) ==
    /\ Len(new) = Len(old)
    /\ \A l \in 1..Len(old) :
          /\ IsSquare(new[l], size(l))
          /\ \A j \in 1..size(l) : \A k \in 1..size(l) :
                new[l][j][k]
                   = C5_Entry(old[l], lists[l], homog, Len(C5_Rows(lists[1], FALSE)), e, j, k)

C5_Once(buffer) == MkVec(2, LAMBDA k : MkVec(Len(buffer[k]), LAMBDA l : <<buffer[k][l][1]>>))

C5_SameBatchTwice(buffer) ==
    \A k \in 1..2 : \A l \in 1..Len(buffer[k]) :
        Len(buffer[k][l]) = 2 /\ buffer[k][l][1] = buffer[k][l][2]

C5_Estimate ==
    call.fn = "update_factor_estimates" /\ pc = "returned"
        => /\ Len(ret) = 2
           /\ C5_Matches(ret[1], call.old_estimates[1], call.samples[1], TRUE, call.eps,
                         LAMBDA l : call.layer_sizes[l] + 1)
           /\ C5_Matches(ret[2], call.old_estimates[2], call.samples[2], FALSE, call.eps,
                         LAMBDA l : call.layer_sizes[l + 1])
           /\ call.eps = Zero
                 => \A other \in {init_factor_estimates(call.layer_sizes),
                                  OtherEstimates(call.layer_sizes)} :
                       ret = update_factor_estimates(other, call.samples, call.eps)
           /\ C5_SameBatchTwice(call.samples)
                 => ret = update_factor_estimates(call.old_estimates,
                                                  C5_Once(call.samples), call.eps)

\* The same two-row batch twice, eps = 0, an old estimate other than identity.
C5_Witness ==
    /\ call.fn = "update_factor_estimates"
    /\ pc = "returned"
    /\ call.eps = Zero
    /\ C5_SameBatchTwice(call.samples)
    /\ Len(call.samples[1][1][1]) = 2
    /\ call.old_estimates # init_factor_estimates(call.layer_sizes)
    /\ ret # call.old_estimates

(***************************************************************************)
(* C7: apply_preconditioner with identity A-inverses and G-inverses        *)
(* returns the raw gradient: the same (weight, bias) pairs, with the same  *)
(* shapes, in the same layer order.                                        *)
(***************************************************************************)
C7_IdentityPrecond ==
    \A k \in 1..2 : \A l \in 1..Len(call.precond[k]) : IsIdentity(call.precond[k][l])

C7_IdentityRoundTrip ==
    call.fn = "apply_preconditioner" /\ pc = "returned" /\ C7_IdentityPrecond
        => /\ ret = call.gradient
           /\ Len(ret) = NumLayers(call.layer_sizes)
           /\ \A l \in 1..Len(ret) :
                 /\ Len(ret[l][1]) = call.layer_sizes[l]
                 /\ Len(ret[l][2]) = call.layer_sizes[l + 1]

\* Two layers, a weight gradient whose rows differ from its bias gradient.
C7_Witness ==
    /\ call.fn = "apply_preconditioner"
    /\ pc = "returned"
    /\ C7_IdentityPrecond
    /\ call.layer_sizes = <<1, 2, 1>>
    /\ call.gradient[1][1][1] # call.gradient[1][2]

====
